---------------------------- MODULE Spec2Model ----------------------------
(***************************************************************************)
(* TechDocsAddonBuilder (packages/techdocs-addons/src/test-utils) and the  *)
(* GiveFeedback test that drives it.                                       *)
(*                                                                         *)
(* The state is the module-level `defaultOptions` object, the builders     *)
(* that reference it, the four jest mock hooks, the document the trees are *)
(* mounted into, the queue of microtasks and timers the mounts schedule,    *)
(* and what the last call returned.                                        *)
(***************************************************************************)
EXTENDS Integers, Sequences, FiniteSets, TLC

VARIABLES
    defaultOptions, \* the module-level options object (test-utils.tsx:61)
    builders,       \* the TechDocsAddonBuilder instances, in creation order
    mocks,          \* return values of the four jest mock hooks
    result,         \* what the last call returned (or that it threw)
    document,       \* the trees mounted into the document so far
    queue,          \* microtasks and timers scheduled and not yet run
    pc,             \* position of the test inside renderWithEffects / waitFor
    selection,      \* what shadowRoot.getSelection returns
    own,            \* history: per builder, the calls made on that builder
    ncalls          \* number of configuration calls made so far

vars == <<defaultOptions, builders, mocks, result, document, queue, pc,
          selection, own, ncalls>>

-----------------------------------------------------------------------------
(* Bounds of the exploration.                                              *)

\* Configuration calls a run makes, over all its builders.
MaxCalls == 3

\* A run constructs at most two builders: enough to tell the options a
\* builder was given from the options another builder was given.
Builders == {1, 2}

-----------------------------------------------------------------------------
(* Values.                                                                 *)

Undefined == "undefined"

\* An entity fixture: null, or an object whose kind, metadata.namespace and
\* metadata.name are each a string or absent (Undefined).
Entity(k, ns, n) == [tag |-> "object", kind |-> k, namespace |-> ns, name |-> n]
NullEntity == [tag |-> "null", kind |-> Undefined, namespace |-> Undefined,
               name |-> Undefined]
EmptyEntity == Entity(Undefined, Undefined, Undefined)

Metadata(n, d) == [tag |-> "object", site_name |-> n, site_description |-> d]
NullMetadata == [tag |-> "null", site_name |-> Undefined,
                 site_description |-> Undefined]
EmptyMetadata == Metadata(Undefined, Undefined)

\* A React element is the pre-order list of the tags / markers of its tree.
Fragment == <<>>

defaultMetadata == Metadata("Tech Docs", "Tech Docs")

defaultEntity == Entity("Component", "default", "docs")

defaultDom == <<"html", "head", "body", "container", "navigation", "toc", "main">>

\* The initial contents of the defaultOptions object.
InitialOptions ==
    [dom |-> Fragment,
     entity |-> EmptyEntity,
     metadata |-> EmptyMetadata,
     componentId |-> "docs",
     readerPage |-> Undefined,
     apis |-> <<>>,
     path |-> ""]

\* The fixture of the GiveFeedback test.
feedbackDom == <<"main", "md-content", "article", "a:Leave feedback", "a:Edit page">>

\* Inputs of the configuration calls.
Doms == {feedbackDom}
Entities == {NullEntity, Entity("API", Undefined, "")}
Metadatas == {NullMetadata, Metadata("Petstore", "Petstore docs")}
ReaderPages == {"TechDocsReaderPage"}
Paths == {"/foo", "/bar"}
Api(ref, type) == <<ref, [type |-> type]>>
ApiLists == {<<Api("scmIntegrationsApiRef", "github")>>,
             <<Api("scmIntegrationsApiRef", "gitlab")>>,
             <<Api("catalogApiRef", "catalog")>>}
AddonLists == {<<>>, <<"GiveFeedback">>}

-----------------------------------------------------------------------------
(* Helpers.                                                                *)

Range(s) == {s[i] : i \in 1..Len(s)}

\* JavaScript truthiness of a string-or-undefined value.
Truthy(v) == v # Undefined /\ v # ""

\* The options object a builder's `options` field references. The field
\* initialiser assigns the module-level object itself, not a copy of it.
Opts(b) == CASE builders[b].options = "defaultOptions" -> defaultOptions

Constructed == 1..Len(builders)

\* const refs = apis.map(([ref]) => ref)
Refs(apis) == {apis[i][1] : i \in 1..Len(apis)}

\* options.apis.filter(([ref]) => !refs.includes(ref)).concat(apis)
MergeApis(old, apis) ==
    LET keep(entry) == entry[1] \notin Refs(apis)
    IN SelectSeq(old, keep) \o apis

-----------------------------------------------------------------------------
(* build(): the values it computes.                                        *)

\* entityName with the fallback taken for the entity as a whole: the
\* default triple as soon as one field is missing.
entityName_allOrNothing(options) ==
    LET e == options.entity
    IN IF e.tag = "object" /\ Truthy(e.namespace) /\ Truthy(e.kind) /\ Truthy(e.name)
       THEN [namespace |-> e.namespace, kind |-> e.kind, name |-> e.name]
       ELSE [namespace |-> defaultEntity.namespace, kind |-> defaultEntity.kind,
             name |-> defaultEntity.name]

entityName(options) ==
    LET e == options.entity
        given(f) == IF e.tag = "object" THEN f ELSE Undefined
    IN [namespace |-> IF Truthy(given(e.namespace)) THEN e.namespace
                      ELSE defaultEntity.namespace,
        kind |-> IF Truthy(given(e.kind)) THEN e.kind ELSE defaultEntity.kind,
        name |-> IF Truthy(given(e.name)) THEN e.name ELSE defaultEntity.name]

techDocsMetadata(options) ==
    [loading |-> FALSE,
     error |-> Undefined,
     value |-> IF options.metadata.tag # "null" THEN options.metadata
               ELSE defaultMetadata]

entityMetadata(options) ==
    [loading |-> FALSE,
     error |-> Undefined,
     value |-> IF options.entity.tag # "null" THEN options.entity
               ELSE defaultEntity]

\* renderToStaticMarkup: one opening-tag token per node, in document
\* order; a fragment with no children serialises to the empty string.
renderToStaticMarkup(element) ==
    [i \in 1..Len(element) |-> [open |-> element[i]]]

\* document.createElement('html') with innerHTML = markup: the parser puts
\* a head and a body under the html element whatever the markup holds, and
\* drops html, head and body tags of the markup itself.
htmlWithInnerHTML(markup) ==
    LET content(token) == token.open \notin {"html", "head", "body"}
        kept == SelectSeq(markup, content)
    IN <<"html", "head", "body">> \o [i \in 1..Len(kept) |-> kept[i].open]

\* An element is an object and so truthy; only null / undefined are not.
NullElement == <<"null">>

readerDom(options) ==
    htmlWithInnerHTML(renderToStaticMarkup(
        IF options.dom # NullElement THEN options.dom ELSE defaultDom))

routeParams(options) ==
    [namespace |-> entityName(options).namespace,
     kind |-> entityName(options).kind,
     name |-> entityName(options).name,
     star |-> options.path]

\* mockReturnValues with the route params set once only (mockReturnValueOnce
\* semantics): a later build() leaves the first value in place.
mockReturnValues_paramsOnce(old, options) ==
    [set |-> TRUE,
     useTechDocsMetadata |-> techDocsMetadata(options),
     useEntityMetadata |-> entityMetadata(options),
     useTechDocsReaderDom |-> readerDom(options),
     useParams |-> IF old.set THEN old.useParams ELSE routeParams(options)]

\* The four mockReturnValue calls of build().
mockReturnValues(old, options) ==
    [set |-> TRUE,
     useTechDocsMetadata |-> techDocsMetadata(options),
     useEntityMetadata |-> entityMetadata(options),
     useTechDocsReaderDom |-> readerDom(options),
     useParams |-> routeParams(options)]

\* builtTree with the provider given an empty api list.
builtTree_noApis(b, options) ==
    [apis |-> <<>>,
     readerPage |-> options.readerPage,
     addons |-> [i \in 1..Len(builders[b].addons) |->
                    [key |-> i - 1, addon |-> builders[b].addons[i]]]]

\* The tree build() returns: TestApiProvider apis={apis}, the reader page as
\* the catch-all route's element, the addons keyed by their index.
builtTree(b, options) ==
    [apis |-> options.apis,
     readerPage |-> options.readerPage,
     addons |-> [i \in 1..Len(builders[b].addons) |->
                    [key |-> i - 1, addon |-> builders[b].addons[i]]]]

NoTree == [apis |-> <<>>, readerPage |-> Undefined, addons |-> <<>>]

-----------------------------------------------------------------------------
(* The initial state: the module is loaded, no builder exists, the mocks    *)
(* are bare jest.fn() and nothing is mounted.                               *)

UnsetMocks ==
    [set |-> FALSE,
     useTechDocsMetadata |-> [loading |-> FALSE, error |-> Undefined,
                              value |-> NullMetadata],
     useEntityMetadata |-> [loading |-> FALSE, error |-> Undefined,
                            value |-> NullEntity],
     useTechDocsReaderDom |-> <<>>,
     useParams |-> [namespace |-> Undefined, kind |-> Undefined,
                    name |-> Undefined, star |-> Undefined]]

NoResult == [kind |-> "none", builder |-> 0, tree |-> NoTree,
             shadowRoot |-> Undefined, via |-> Undefined, pending |-> 0,
             builds |-> 0, mounts |-> 0]

NoCalls == [apiCalls |-> <<>>, path |-> Undefined, dom |-> FALSE,
            metadata |-> FALSE]

Init ==
    /\ defaultOptions = InitialOptions
    /\ builders = <<>>
    /\ mocks = UnsetMocks
    /\ result = NoResult
    /\ document = <<>>
    /\ queue = [micro |-> <<>>, timers |-> <<>>]
    /\ pc = [at |-> "test", builder |-> 0, builds |-> 0, mounts |-> 0]
    /\ selection = Undefined
    /\ own = <<>>
    /\ ncalls = 0

-----------------------------------------------------------------------------
(* Construction and the configuration calls.                               *)

\* static buildAddonsInTechDocs(addons) / constructor(addons)
buildAddonsInTechDocs(addons) ==
    /\ pc.at = "test"
    /\ Len(builders) < Cardinality(Builders)
    /\ builders' = Append(builders, [options |-> "defaultOptions", addons |-> addons])
    /\ own' = Append(own, NoCalls)
    /\ result' = [NoResult EXCEPT !.kind = "builder", !.builder = Len(builders) + 1]
    /\ UNCHANGED <<defaultOptions, mocks, document, queue, pc, selection, ncalls>>

\* this.options.<field> = value: a write to the object `options` references.
Assign(b, field, value) ==
    CASE builders[b].options = "defaultOptions" ->
        defaultOptions' = [defaultOptions EXCEPT ![field] = value]

\* What every configuration call does besides its assignment: it runs in
\* the test's own code, and returns `this`.
Configure(b) ==
    /\ pc.at = "test"
    /\ b \in Constructed
    /\ ncalls < MaxCalls
    /\ ncalls' = ncalls + 1
    /\ result' = [NoResult EXCEPT !.kind = "builder", !.builder = b]
    /\ UNCHANGED <<builders, mocks, document, queue, pc, selection>>

withApis(b, apis) ==
    /\ Configure(b)
    /\ Assign(b, "apis", MergeApis(Opts(b).apis, apis))
    /\ own' = [own EXCEPT ![b].apiCalls = Append(@, apis)]

\* withDom replacing the options by the defaults plus the new dom.
withDom_resetsOthers(b, dom) ==
    /\ Configure(b)
    /\ defaultOptions' = [InitialOptions EXCEPT !.dom = dom]
    /\ own' = [own EXCEPT ![b].dom = TRUE]

withDom(b, dom) ==
    /\ Configure(b)
    /\ Assign(b, "dom", dom)
    /\ own' = [own EXCEPT ![b].dom = TRUE]

withMetadata(b, metadata) ==
    /\ Configure(b)
    /\ Assign(b, "metadata", metadata)
    /\ own' = [own EXCEPT ![b].metadata = TRUE]

withEntity(b, entity) ==
    /\ Configure(b)
    /\ Assign(b, "entity", entity)
    /\ UNCHANGED own

withReaderPage(b, readerPage) ==
    /\ Configure(b)
    /\ Assign(b, "readerPage", readerPage)
    /\ UNCHANGED own

atPath(b, path) ==
    /\ Configure(b)
    /\ Assign(b, "path", path)
    /\ own' = [own EXCEPT ![b].path = path]

-----------------------------------------------------------------------------
(* What the mounted components do. TechDocsReaderPage and GiveFeedback are *)
(* not part of the files modelled here; their behaviour is the one the     *)
(* specification describes.                                                *)

\* The reader page renders the node tagged techdocs-native-shadowroot.
rendersShadowHost(tree) == tree.readerPage = "TechDocsReaderPage"

hasAddon(tree, addon) == \E i \in 1..Len(tree.addons) : tree.addons[i].addon = addon

\* The mounted tree, its effects already run by the synchronous render:
\* a hosted GiveFeedback listens for selectionchange from then on.
mounted(b, tree) ==
    [tree |-> tree,
     builder |-> b,          \* history: the builder that rendered
     options |-> Opts(b),    \* history: the options it rendered with
     host |-> rendersShadowHost(tree),
     loaded |-> FALSE,
     listening |-> rendersShadowHost(tree) /\ hasAddon(tree, "GiveFeedback"),
     popover |-> Undefined]

\* The asynchronous work a mount leaves behind: the reader page's content
\* load, which resolves in a microtask and then commits a state update.
scheduledBy(i, tree) ==
    IF rendersShadowHost(tree) THEN <<[kind |-> "load", mount |-> i]>> ELSE <<>>

\* apis.get(scmIntegrationsApiRef): the last entry registered under the ref.
scmIntegration(apis) ==
    LET scm(entry) == entry[1] = "scmIntegrationsApiRef"
        found == SelectSeq(apis, scm)
    IN IF found = <<>> THEN Undefined ELSE found[Len(found)][2].type

issueText(type) ==
    CASE type = "github" -> "Open new Github issue"
      [] type = "gitlab" -> "Open new Gitlab issue"
      [] OTHER -> Undefined

\* What GiveFeedback shows for the current selection.
popoverFor(m) ==
    LET dom == Range(mocks.useTechDocsReaderDom)
    IN IF /\ selection = "range"
          /\ m.loaded
          /\ {"main", "article", "a:Leave feedback", "a:Edit page"} \subseteq dom
       THEN issueText(scmIntegration(m.tree.apis))
       ELSE Undefined

texts == {document[i].popover : i \in 1..Len(document)} \ {Undefined}

-----------------------------------------------------------------------------
(* build(), render() and renderWithEffects().                              *)

\* screen.getByTestId('techdocs-native-shadowroot') throws unless exactly
\* one node of the document carries the test id.
shadowHosts(doc) == {i \in 1..Len(doc) : doc[i].host}
getByTestIdThrows(doc) == Cardinality(shadowHosts(doc)) # 1

\* The body of build(): the mocks are overwritten and the tree returned.
Build(b) ==
    mocks' = mockReturnValues(mocks, Opts(b))

\* render(this.build()) of @testing-library/react. A test mounts one tree:
\* the library unmounts what a test mounted before the next test runs.
Mount(b) ==
    /\ document = <<>>
    /\ Build(b)
    /\ document' = Append(document, mounted(b, builtTree(b, Opts(b))))
    /\ queue' = [queue EXCEPT !.micro =
                    @ \o scheduledBy(Len(document) + 1, builtTree(b, Opts(b)))]

\* { ...screen, shadowRoot: shadowHost?.shadowRoot }
surface(via, builds, mounts, pending) ==
    [NoResult EXCEPT !.kind = "surface", !.shadowRoot = "shadowRoot",
                     !.via = via, !.builds = builds, !.mounts = mounts,
                     !.pending = pending]

thrown(via) == [NoResult EXCEPT !.kind = "thrown", !.via = via]

build(b) ==
    /\ pc.at = "test"
    /\ b \in Constructed
    /\ Build(b)
    /\ result' = [NoResult EXCEPT !.kind = "tree", !.builder = b,
                                  !.tree = builtTree(b, Opts(b))]
    /\ UNCHANGED <<defaultOptions, builders, document, queue, pc, selection,
                   own, ncalls>>

render(b) ==
    /\ pc.at = "test"
    /\ b \in Constructed
    /\ Mount(b)
    /\ result' = IF getByTestIdThrows(document') THEN thrown("render")
                 ELSE surface("render", 1, 1, Len(queue'.micro))
    /\ UNCHANGED <<defaultOptions, builders, pc, selection, own, ncalls>>

\* await act(async () => { this.render(); }): the call of render inside act.
\* When render throws, act rejects and so does renderWithEffects.
renderWithEffects(b) ==
    /\ pc.at = "test"
    /\ b \in Constructed
    /\ Mount(b)
    /\ IF getByTestIdThrows(document')
       THEN /\ result' = thrown("renderWithEffects")
            /\ pc' = pc
       ELSE /\ result' = [NoResult EXCEPT !.kind = "pending"]
            /\ pc' = [at |-> "act", builder |-> b, builds |-> 1, mounts |-> 1]
    /\ UNCHANGED <<defaultOptions, builders, selection, own, ncalls>>

\* The event loop runs the next microtask: a resolved load schedules the
\* state update, and the state update commits.
runMicrotask ==
    /\ queue.micro # <<>>
    /\ LET job == Head(queue.micro)
       IN IF job.kind = "load"
          THEN /\ queue' = [queue EXCEPT !.micro =
                               Append(Tail(@), [kind |-> "commit", mount |-> job.mount])]
               /\ UNCHANGED document
          ELSE /\ queue' = [queue EXCEPT !.micro = Tail(@)]
               /\ document' = [document EXCEPT ![job.mount].loaded = TRUE]
    /\ UNCHANGED <<defaultOptions, builders, mocks, result, pc, selection,
                   own, ncalls>>

\* actResolves without waiting for the scheduled work: act not awaited.
actResolves_notAwaited ==
    /\ pc.at = "act"
    /\ result' = IF getByTestIdThrows(document) THEN thrown("renderWithEffects")
                 ELSE surface("renderWithEffects", pc.builds, pc.mounts,
                              Len(queue.micro))
    /\ pc' = [at |-> "test", builder |-> 0, builds |-> 0, mounts |-> 0]
    /\ UNCHANGED <<defaultOptions, builders, mocks, document, queue, selection,
                   own, ncalls>>

\* act resolves once the work scheduled inside it has run; the method then
\* looks the shadow host up again and returns the surface.
actResolves ==
    /\ pc.at = "act"
    /\ queue.micro = <<>>
    /\ result' = IF getByTestIdThrows(document) THEN thrown("renderWithEffects")
                 ELSE surface("renderWithEffects", pc.builds, pc.mounts,
                              Len(queue.micro))
    /\ pc' = [at |-> "test", builder |-> 0, builds |-> 0, mounts |-> 0]
    /\ UNCHANGED <<defaultOptions, builders, mocks, document, queue, selection,
                   own, ncalls>>

-----------------------------------------------------------------------------
(* The GiveFeedback test: the selection stub, the selectionchange event    *)
(* and waitFor.                                                            *)

Selections == {"range", "empty"}

\* shadowRoot.getSelection = () => selection
setGetSelection(sel) ==
    /\ pc.at = "test"
    /\ result.kind = "surface"
    /\ result.shadowRoot = "shadowRoot"
    /\ selection # sel
    /\ selection' = sel
    /\ UNCHANGED <<defaultOptions, builders, mocks, result, document, queue,
                   pc, own, ncalls>>

\* fireSelectionChangeEvent(window), then await waitFor(...): every
\* listening GiveFeedback (re)arms its debounce timer.
fireSelectionChangeEvent ==
    /\ pc.at = "test"
    /\ selection # Undefined
    /\ LET listening(i) == document[i].listening
           armed(t) == ~listening(t.mount)
           fresh == SelectSeq([i \in 1..Len(document) |-> [kind |-> "selection", mount |-> i]],
                              LAMBDA t : listening(t.mount))
       IN queue' = [queue EXCEPT !.timers = SelectSeq(@, armed) \o fresh]
    /\ pc' = [pc EXCEPT !.at = "waitFor"]
    /\ UNCHANGED <<defaultOptions, builders, mocks, result, document,
                   selection, own, ncalls>>

\* The debounce timer fires, after the microtasks: GiveFeedback reads the
\* selection and shows or hides its popover.
selectionHandler ==
    /\ queue.micro = <<>>
    /\ queue.timers # <<>>
    /\ LET i == Head(queue.timers).mount
       IN document' = [document EXCEPT ![i].popover = popoverFor(document[i])]
    /\ queue' = [queue EXCEPT !.timers = Tail(@)]
    /\ UNCHANGED <<defaultOptions, builders, mocks, result, pc, selection,
                   own, ncalls>>

\* waitFor(() => expect(getByText('Open new Github issue'))...) resolves
\* once the text is in the document.
waitForResolves ==
    /\ pc.at = "waitFor"
    /\ "Open new Github issue" \in texts
    /\ pc' = [pc EXCEPT !.at = "test"]
    /\ result' = [NoResult EXCEPT !.kind = "found"]
    /\ UNCHANGED <<defaultOptions, builders, mocks, document, queue, selection,
                   own, ncalls>>

\* ... and gives up when nothing is left that could bring the text.
waitForTimesOut ==
    /\ pc.at = "waitFor"
    /\ "Open new Github issue" \notin texts
    /\ queue.micro = <<>>
    /\ queue.timers = <<>>
    /\ pc' = [pc EXCEPT !.at = "test"]
    /\ result' = thrown("waitFor")
    /\ UNCHANGED <<defaultOptions, builders, mocks, document, queue, selection,
                   own, ncalls>>

-----------------------------------------------------------------------------

\* The builder on its own: construction, configuration and build().
Next ==
    \/ \E addons \in AddonLists : buildAddonsInTechDocs(addons)
    \/ \E b \in Builders, apis \in ApiLists : withApis(b, apis)
    \/ \E b \in Builders, dom \in Doms : withDom(b, dom)
    \/ \E b \in Builders, metadata \in Metadatas : withMetadata(b, metadata)
    \/ \E b \in Builders, entity \in Entities : withEntity(b, entity)
    \/ \E b \in Builders, page \in ReaderPages : withReaderPage(b, page)
    \/ \E b \in Builders, path \in Paths : atPath(b, path)
    \/ \E b \in Builders : build(b)

\* The builder driven as the GiveFeedback test drives it: the options that
\* decide what is mounted (apis, dom, reader page), the two ways of
\* rendering, the event loop and the selection. The mounted components read
\* neither the entity, the metadata nor the path, and the calls that set
\* them are left to Next.
RenderNext ==
    \/ \E addons \in AddonLists : buildAddonsInTechDocs(addons)
    \/ \E b \in Builders, apis \in ApiLists : withApis(b, apis)
    \/ \E b \in Builders, dom \in Doms : withDom(b, dom)
    \/ \E b \in Builders, page \in ReaderPages : withReaderPage(b, page)
    \/ \E b \in Builders : render(b)
    \/ \E b \in Builders : renderWithEffects(b)
    \/ runMicrotask
    \/ actResolves
    \/ \E sel \in Selections : setGetSelection(sel)
    \/ fireSelectionChangeEvent
    \/ selectionHandler
    \/ waitForResolves
    \/ waitForTimesOut

Spec == Init /\ [][Next]_vars

\* The event loop runs every job it holds, and a pending await resumes
\* once its condition holds.
RenderSpec == Init /\ [][RenderNext]_vars

FairRenderSpec ==
    /\ RenderSpec
    /\ WF_vars(runMicrotask)
    /\ WF_vars(selectionHandler)
    /\ WF_vars(actResolves)
    /\ WF_vars(waitForResolves)

-----------------------------------------------------------------------------
(* What the claims are stated with.                                        *)

\* The configuration calls, whatever their argument.
Configures(b) ==
    \/ \E apis \in ApiLists : withApis(b, apis)
    \/ \E dom \in Doms : withDom(b, dom)
    \/ \E metadata \in Metadatas : withMetadata(b, metadata)
    \/ \E entity \in Entities : withEntity(b, entity)
    \/ \E page \in ReaderPages : withReaderPage(b, page)
    \/ \E path \in Paths : atPath(b, path)

\* A builder's options after the step.
OptsAfter(b) == CASE builders'[b].options = "defaultOptions" -> defaultOptions'

\* In a state where build() has just returned, no configuration call was
\* made since: the options are the ones build() read.
JustBuilt == result.kind = "tree"

\* The entries of an api list registered under ref.
Under(apis, ref) == LET at(entry) == entry[1] = ref IN SelectSeq(apis, at)

\* The calls, by index, of a builder's withApis history that register ref.
CallsWith(calls, ref) == {i \in 1..Len(calls) : ref \in Refs(calls[i])}

Max(S) == CHOOSE x \in S : \A y \in S : y <= x

RECURSIVE Flatten(_)
Flatten(calls) ==
    IF calls = <<>> THEN <<>> ELSE Head(calls) \o Flatten(Tail(calls))

RECURSIVE RefsInOrder(_, _)
\* The refs of a list of entries, each once, in order of first occurrence.
RefsInOrder(entries, seen) ==
    IF entries = <<>> THEN <<>>
    ELSE IF Head(entries)[1] \in seen THEN RefsInOrder(Tail(entries), seen)
    ELSE <<Head(entries)[1]>> \o RefsInOrder(Tail(entries), seen \cup {Head(entries)[1]})

-----------------------------------------------------------------------------
\* C1: every builder has its own options. A configuration call on one
\* builder never changes the options another builder builds with, and a
\* newly constructed builder starts from the default options.
C1_OwnOptionsPerBuilder ==
    [][/\ \A a \in Constructed, b \in Constructed :
            (a # b /\ Configures(a)) => OptsAfter(b) = Opts(b)
       /\ Len(builders') > Len(builders) => OptsAfter(Len(builders) + 1) = InitialOptions]_vars

\* C2: the api list build() hands to the provider holds, for every ref the
\* builder registered in more than one withApis call, only the stubs of the
\* latest of these calls; the refs it registered in one call only keep the
\* order in which they were first registered.
C2_ApisLastWriteWins ==
    JustBuilt =>
        LET calls == own[result.builder].apiCalls
            handed == result.tree.apis
            once(ref) == Cardinality(CallsWith(calls, ref)) = 1
        IN /\ \A ref \in Refs(Flatten(calls)) :
                Cardinality(CallsWith(calls, ref)) > 1 =>
                    Under(handed, ref) = Under(calls[Max(CallsWith(calls, ref))], ref)
           /\ SelectSeq(RefsInOrder(handed, {}), once)
                = SelectSeq(RefsInOrder(Flatten(calls), {}), once)

\* C3 as stated: build() resolves namespace, kind and name one by one; a
\* field present on the entity is used as given, an absent one falls back
\* to 'default', 'Component' and 'docs'; the route params hold this triple.
C3_PresentFieldUsedAsGiven ==
    JustBuilt =>
        LET e == Opts(result.builder).entity
            resolved(given, default) ==
                IF e.tag = "object" /\ given # Undefined THEN given ELSE default
        IN /\ mocks.useParams.namespace = resolved(e.namespace, "default")
           /\ mocks.useParams.kind = resolved(e.kind, "Component")
           /\ mocks.useParams.name = resolved(e.name, "docs")

\* C3, amended: build() resolves namespace, kind and name one by one; a
\* field that is present and not the empty string is used as given, and a
\* field that is absent or empty (or any field of a null entity) falls back
\* to 'default', 'Component' and 'docs'; the route params hold this triple.
C3_FieldByFieldFallback ==
    JustBuilt =>
        LET e == Opts(result.builder).entity
            resolved(given, default) ==
                IF e.tag = "object" /\ given # Undefined /\ given # ""
                THEN given ELSE default
        IN /\ mocks.useParams.namespace = resolved(e.namespace, "default")
           /\ mocks.useParams.kind = resolved(e.kind, "Component")
           /\ mocks.useParams.name = resolved(e.name, "docs")

\* A build with an entity that has a kind and no namespace: the kind is
\* kept and the namespace alone falls back.
C3_Witness ==
    /\ JustBuilt
    /\ Opts(result.builder).entity = Entity("API", Undefined, "")
    /\ mocks.useParams.kind = "API"
    /\ mocks.useParams.namespace = "default"
    /\ mocks.useParams.name = "docs"

\* C4: when the mounted tree holds no node tagged techdocs-native-shadowroot,
\* render() does not raise and returns a surface whose shadowRoot is null.
C4_RenderWithoutHostReturnsNull ==
    (result.via = "render" /\ shadowHosts(document) = {}) =>
        (result.kind = "surface" /\ result.shadowRoot = "null")

\* C5: on a builder where withDom was never called, build() registers the
\* default page markup (container, navigation, toc, main) as reader DOM,
\* and where withMetadata was never called the metadata hook's value is the
\* default metadata.
C5_DefaultsAppliedAtBuild ==
    JustBuilt =>
        /\ ~own[result.builder].dom =>
              {"container", "navigation", "toc", "main"}
                  \subseteq Range(mocks.useTechDocsReaderDom)
        /\ ~own[result.builder].metadata =>
              mocks.useTechDocsMetadata.value = Metadata("Tech Docs", "Tech Docs")

\* C7: after atPath calls on a builder followed by its build(), the route
\* params' '*' key holds the path of the builder's last atPath call.
C7_StarIsLastAtPath ==
    (JustBuilt /\ own[result.builder].path # Undefined) =>
        mocks.useParams.star = own[result.builder].path


\* C6: when renderWithEffects() returns the surface, no microtask scheduled
\* by the mount is pending, the asynchronous state update of the mounted
\* reader page is committed, and the tree was built and mounted once.
C6_EffectsFlushedBeforeReturn ==
    (result.kind = "surface" /\ result.via = "renderWithEffects") =>
        /\ result.pending = 0
        /\ \A i \in shadowHosts(document) : document[i].loaded
        /\ result.builds = 1
        /\ result.mounts = 1
        /\ Len(document) = 1

\* renderWithEffects() has returned the surface of a mounted reader page
\* whose content load was committed on the way.
C6_Witness ==
    /\ result.kind = "surface"
    /\ result.via = "renderWithEffects"
    /\ document[1].host
    /\ document[1].loaded

\* What a configuration call on b leaves alone: it returns b, changes no
\* option but `field`, no addon list and no mock.
Frame(b, field) ==
    /\ result'.kind = "builder"
    /\ result'.builder = b
    /\ \A other \in DOMAIN Opts(b) \ {field} : OptsAfter(b)[other] = Opts(b)[other]
    /\ builders' = builders
    /\ mocks' = mocks

\* C8: each configuration call returns the builder it was called on and
\* changes only its own option field; the other option fields, the addon
\* list and the mock hooks are left as they were.
C8_ConfigurationFrame ==
    [][ncalls' # ncalls => \A b \in Constructed :
        /\ (\E apis \in ApiLists : withApis(b, apis)) => Frame(b, "apis")
        /\ \A dom \in Doms :
              withDom(b, dom) => (Frame(b, "dom") /\ OptsAfter(b).dom = dom)
        /\ \A metadata \in Metadatas :
              withMetadata(b, metadata) =>
                  (Frame(b, "metadata") /\ OptsAfter(b).metadata = metadata)
        /\ \A entity \in Entities :
              withEntity(b, entity) =>
                  (Frame(b, "entity") /\ OptsAfter(b).entity = entity)
        /\ \A page \in ReaderPages :
              withReaderPage(b, page) =>
                  (Frame(b, "readerPage") /\ OptsAfter(b).readerPage = page)
        /\ \A path \in Paths :
              atPath(b, path) => (Frame(b, "path") /\ OptsAfter(b).path = path)]_vars

\* withDom was called after two other options were set, before any build():
\* the two options are still there and the mocks are untouched.
C8_Witness ==
    /\ result.kind = "builder"
    /\ ~mocks.set
    /\ defaultOptions.dom = feedbackDom
    /\ defaultOptions.path = "/foo"
    /\ defaultOptions.readerPage = "TechDocsReaderPage"

\* C9: a single GiveFeedback addon mounted through renderWithEffects() in a
\* reader page whose fixture has the 'Leave feedback' and 'Edit page'
\* anchors, with a source-control stub of type 'github': once selectionchange
\* is fired with a non-empty selection inside the content, the surface
\* eventually contains 'Open new Github issue'.
C9_Scenario ==
    /\ pc.at = "waitFor"
    /\ result.kind = "surface"
    /\ result.via = "renderWithEffects"
    /\ selection = "range"
    /\ Len(document) = 1
    /\ builders[document[1].builder].addons = <<"GiveFeedback">>
    /\ document[1].options.readerPage = "TechDocsReaderPage"
    /\ {"a:Leave feedback", "a:Edit page"} \subseteq Range(document[1].options.dom)
    /\ scmIntegration(document[1].options.apis) = "github"

C10_MocksHoldLastBuild ==
    [][IF JustBuilt'
       THEN LET options == Opts(result'.builder)
            IN /\ mocks'.set
               /\ mocks'.useTechDocsReaderDom = readerDom(options)
               /\ mocks'.useParams = routeParams(options)
               /\ mocks'.useTechDocsMetadata = techDocsMetadata(options)
               /\ mocks'.useEntityMetadata = entityMetadata(options)
               /\ mocks'.useTechDocsMetadata.loading = FALSE
               /\ mocks'.useTechDocsMetadata.error = Undefined
               /\ mocks'.useEntityMetadata.loading = FALSE
               /\ mocks'.useEntityMetadata.error = Undefined
       ELSE mocks' = mocks]_vars

\* A build(), then a configuration call: the hooks still return what the
\* build computed, not what the options are now.
C10_Witness ==
    /\ mocks.set
    /\ result.kind = "builder"
    /\ mocks.useParams.star = "/foo"
    /\ defaultOptions.path = "/bar"

=============================================================================
